---- MODULE Spec2Model ----
(***************************************************************************)
(* Model of STMiner/Algorithm/distance.py: the Hellinger distance between  *)
(* Gaussian components, the matched distance between two mixture models,   *)
(* the spatial array of a gene, the mean squared error of two arrays, the  *)
(* one-to-many comparison and the five pairwise distance-matrix builders.  *)
(*                                                                         *)
(* Numbers.  A float64 the program computes with sqrt, exp, pow, * or / is *)
(* a binary fixed-point number: the integer x stands for x / SCALE, and    *)
(* every such primitive rounds its exact result to the nearest unit, as    *)
(* the binary64 primitive rounds to the nearest double.  Sums and          *)
(* differences are exact.  A float64 that a function returns is a record   *)
(* [q, r, d] standing for q + r/d (0 <= r < d, r/d in lowest terms), so    *)
(* that the mean of 32-bit integers is held exactly; d = 0 is NaN.         *)
(* An int32 is an integer of MinInt32..MaxInt32 and int32 arithmetic wraps.*)
(***************************************************************************)
EXTENDS Integers, Sequences, FiniteSets, TLC

\* ------------------------------------------------------------------------
\* Integer helpers
\* ------------------------------------------------------------------------
Abs(x) == IF x < 0 THEN -x ELSE x

Min2(a, b) == IF a <= b THEN a ELSE b

RECURSIVE Gcd(_, _)
Gcd(a, b) == IF b = 0 THEN a ELSE Gcd(b, a % b)

\* a / b rounded to the nearest integer, ties away from -infinity (b > 0)
RoundDiv(a, b) == (2 * a + b) \div (2 * b)

\* a / b rounded to the nearest integer, ties to the even one (b > 0): np.round
RoundHalfEven(a, b) ==
    LET fl == a \div b
        rem == a % b
    IN  IF 2 * rem < b THEN fl
        ELSE IF 2 * rem > b THEN fl + 1
        ELSE IF fl % 2 = 0 THEN fl ELSE fl + 1

RECURSIVE ISqrtSearch(_, _, _)
ISqrtSearch(n, lo, hi) ==
    IF lo >= hi THEN lo
    ELSE LET mid == (lo + hi + 1) \div 2
         IN  IF mid <= n \div mid THEN ISqrtSearch(n, mid, hi)
             ELSE ISqrtSearch(n, lo, mid - 1)

\* floor of the square root of n >= 0
ISqrt(n) == IF n <= 0 THEN 0 ELSE ISqrtSearch(n, 1, Min2(n, 46340))

\* the square root of n >= 0 rounded to the nearest integer
RoundSqrt(n) == LET r == ISqrt(n) IN IF n - r * r <= r THEN r ELSE r + 1

RECURSIVE SeqSum(_)
SeqSum(s) == IF s = <<>> THEN 0 ELSE Head(s) + SeqSum(Tail(s))

\* ------------------------------------------------------------------------
\* float64 as binary fixed point
\* ------------------------------------------------------------------------
SCALE == 2^10

FMul(a, b) == RoundDiv(a * b, SCALE)

FDiv(a, b) == IF b > 0 THEN RoundDiv(a * SCALE, b) ELSE -RoundDiv(a * SCALE, -b)

FSqrt(a) == RoundSqrt(a * SCALE)

\* np.power(x, 0.25)
FPow025(a) == FSqrt(FSqrt(a))

RECURSIVE ExpSeries(_, _, _)
\* sum of the terms x^n/n! from the n-th on, term being x^n/n!
ExpSeries(x, term, n) ==
    IF term = 0 THEN 0 ELSE term + ExpSeries(x, RoundDiv(FMul(term, x), n + 1), n + 1)

RECURSIVE FExpNeg(_)
\* np.exp(-x) for x >= 0
FExpNeg(x) ==
    IF x <= SCALE THEN FDiv(SCALE, ExpSeries(x, SCALE, 0))
    ELSE LET h == FExpNeg(x \div 2) IN FMul(h, h)

\* ------------------------------------------------------------------------
\* float64 values that functions return: q + r/d exactly; d = 0 is NaN
\* ------------------------------------------------------------------------
Zero == [q |-> 0, r |-> 0, d |-> 1]

NaN == [q |-> 0, r |-> 0, d |-> 0]

IsNaN(a) == a.d = 0

\* the value num/den (den > 0) for integers that fit
Ratio(num, den) ==
    LET rem == num % den
        g == Gcd(rem, den)
    IN  [q |-> num \div den, r |-> rem \div g, d |-> den \div g]

FromFx(x) == Ratio(x, SCALE)

F64Add(a, b) ==
    IF IsNaN(a) \/ IsNaN(b) THEN NaN
    ELSE LET f == Ratio(a.r * b.d + b.r * a.d, a.d * b.d)
         IN  [q |-> a.q + b.q + f.q, r |-> f.r, d |-> f.d]

\* a <= b; false when either is NaN, as every IEEE comparison with NaN
F64Le(a, b) ==
    /\ ~IsNaN(a)
    /\ ~IsNaN(b)
    /\ \/ a.q < b.q
       \/ a.q = b.q /\ a.r * b.d <= b.r * a.d

\* ------------------------------------------------------------------------
\* Mixture models.  A covariance <<a, b, c, d>> is the matrix [[a, b], [c, d]],
\* a mean <<x, y>>; all entries in units of 1/SCALE.
\* ------------------------------------------------------------------------
Det2(m) == FMul(m[1], m[4]) - FMul(m[2], m[3])

\* np.linalg.inv of an invertible 2x2 matrix
Inv2(m) ==
    LET det == Det2(m)
    IN  <<FDiv(m[4], det), FDiv(-m[2], det), FDiv(-m[3], det), FDiv(m[1], det)>>

\* v.T @ m @ v, evaluated left to right
QuadForm(v, m) ==
    LET row == <<FMul(v[1], m[1]) + FMul(v[2], m[3]), FMul(v[1], m[2]) + FMul(v[2], m[4])>>
    IN  FMul(row[1], v[1]) + FMul(row[2], v[2])

\* get_hellinger_distance with the first determinant taken twice in second_term
get_hellinger_distance_det1_twice(gmm1_covs, gmm1_means, gmm2_covs, gmm2_means) ==
    LET mean_cov == [k \in 1..4 |-> RoundDiv(gmm1_covs[k] + gmm2_covs[k], 2)]
        means_diff == <<gmm1_means[1] - gmm2_means[1], gmm1_means[2] - gmm2_means[2]>>
        first_term == FExpNeg(RoundDiv(QuadForm(means_diff, Inv2(mean_cov)), 8))
        second_term == FDiv(FMul(FPow025(Det2(gmm1_covs)), FPow025(Det2(gmm1_covs))),
                            FSqrt(Det2(mean_cov)))
    IN  FSqrt(Abs(SCALE - FMul(first_term, second_term)))

get_hellinger_distance(gmm1_covs, gmm1_means, gmm2_covs, gmm2_means) ==
    LET mean_cov == [k \in 1..4 |-> RoundDiv(gmm1_covs[k] + gmm2_covs[k], 2)]
        mean_cov_det == Det2(mean_cov)
        mean_cov_inv == Inv2(mean_cov)
        gmm1_cov_det == Det2(gmm1_covs)
        gmm2_cov_det == Det2(gmm2_covs)
        means_diff == <<gmm1_means[1] - gmm2_means[1], gmm1_means[2] - gmm2_means[2]>>
        first_term == FExpNeg(RoundDiv(QuadForm(means_diff, mean_cov_inv), 8))
        second_term == FDiv(FMul(FPow025(gmm1_cov_det), FPow025(gmm2_cov_det)),
                            FSqrt(mean_cov_det))
    IN  FSqrt(Abs(SCALE - FMul(first_term, second_term)))

\* CostArray with the weight of the second model's i-th component, not its j-th
CostArrayRowWeights(first_gmm, second_gmm) ==
    LET n_components == Len(first_gmm.weights_)
    IN  [i \in 1..n_components |-> [j \in 1..n_components |->
            FMul(first_gmm.weights_[i] + second_gmm.weights_[i],
                 get_hellinger_distance(first_gmm.covariances_[i], first_gmm.means_[i],
                                        second_gmm.covariances_[j], second_gmm.means_[j]))]]

\* the cost matrix of lines 31-35, for n_components <= the second model's count
CostArray(first_gmm, second_gmm) ==
    LET n_components == Len(first_gmm.weights_)
    IN  [i \in 1..n_components |-> [j \in 1..n_components |->
            FMul(first_gmm.weights_[i] + second_gmm.weights_[j],
                 get_hellinger_distance(first_gmm.covariances_[i], first_gmm.means_[i],
                                        second_gmm.covariances_[j], second_gmm.means_[j]))]]

RECURSIVE AssignFrom(_, _, _)
\* the least total of cost over the one-to-one assignments of rows row.. to the
\* columns not in used
AssignFrom(cost, row, used) ==
    IF row > Len(cost) THEN 0
    ELSE LET free == (1..Len(cost)) \ used
             tot(c) == cost[row][c] + AssignFrom(cost, row + 1, used \cup {c})
         IN  tot(CHOOSE c \in free : \A e \in free : tot(c) <= tot(e))

\* STMiner.Algorithm.algorithm.linear_sum: the total cost of an exact
\* minimum-cost assignment
linear_sum(cost) == AssignFrom(cost, 1, {})

\* raised: the exception that ends the call ("none": it returns value);
\* cells: the cost-matrix cells computed before it ended
distribution_distance(first_gmm, second_gmm) ==
    LET n_components == Len(first_gmm.weights_)
        k2 == Len(second_gmm.weights_)
    IN  IF n_components > k2
        THEN [raised |-> "IndexError", cells |-> k2, value |-> NaN]
        ELSE [raised |-> "none", cells |-> n_components * n_components,
              value |-> FromFx(linear_sum(CostArray(first_gmm, second_gmm)))]

\* ------------------------------------------------------------------------
\* The mixture models the checks draw from
\* ------------------------------------------------------------------------
MaxK == 2

Components ==
    << [mean |-> <<0, 0>>,             cov |-> <<SCALE, 0, 0, SCALE>>],
       [mean |-> <<2 * SCALE, 0>>,     cov |-> <<2 * SCALE, 0, 0, SCALE>>],
       [mean |-> <<0, 3 * SCALE>>,     cov |-> <<2 * SCALE, SCALE, SCALE, 2 * SCALE>>] >>

\* K weights summing to 1, the h-th component carrying the most
Weights(K, h) == [i \in 1..K |-> IF i = h THEN SCALE - (K - 1) * (SCALE \div 8)
                                  ELSE SCALE \div 8]

MakeGmm(pick, h) ==
    [weights_ |-> Weights(Len(pick), h),
     means_ |-> [i \in 1..Len(pick) |-> Components[pick[i]].mean],
     covariances_ |-> [i \in 1..Len(pick) |-> Components[pick[i]].cov]]

Models ==
    UNION { { MakeGmm(pick, h) : pick \in [1..K -> 1..Len(Components)], h \in 1..K }
            : K \in 1..MaxK }

\* the models a gene -> model mapping is drawn from: MaxK components each,
\* and one single-component model
DictModels ==
    { MakeGmm([c \in 1..MaxK |-> ((r + c) % Len(Components)) + 1], 1) : r \in 0..2 }
    \cup { MakeGmm([c \in 1..MaxK |-> (c % Len(Components)) + 1], MaxK), MakeGmm(<<2>>, 1) }

Genes == {"g1", "g2", "g3"}

MaxGenes == 3

\* the sequences over S of length at most n
RECURSIVE SeqsUpTo(_, _)
SeqsUpTo(S, n) ==
    IF n = 0 THEN {<<>>}
    ELSE LET shorter == SeqsUpTo(S, n - 1)
         IN  shorter \cup { Append(q, e) : q \in { t \in shorter : Len(t) = n - 1 }, e \in S }

Range(q) == { q[k] : k \in DOMAIN q }

NoDuplicates(q) == \A a, b \in DOMAIN q : q[a] = q[b] => a = b

\* a dict is its key -> value function and its keys in insertion order
Dicts(K, V) ==
    UNION { { [keys |-> ks, val |-> f] : f \in [Range(ks) -> V] }
            : ks \in { q \in SeqsUpTo(K, MaxGenes) : NoDuplicates(q) } }

\* ------------------------------------------------------------------------
\* compare_gmm_distance(gmm, gmm_dict)
\* ------------------------------------------------------------------------
\* lines 106-109: the calls of distribution_distance, in key order
DistanceCalls(q_gmm, dict) ==
    [k \in 1..Len(dict.keys) |-> distribution_distance(q_gmm, dict.val[dict.keys[k]])]

\* DataFrame.sort_values(0) left out: the rows in key order
SortValuesKeyOrder(rows) == { rows }

\* DataFrame.sort_values(0): the rows in ascending order of the value; the
\* sort is not stable, so equal values may come in any order
SortValues(rows) ==
    { [k \in 1..Len(rows) |-> rows[p[k]]] :
        p \in { s \in [1..Len(rows) -> 1..Len(rows)] :
                  /\ \A a, b \in 1..Len(rows) : s[a] = s[b] => a = b
                  /\ \A k \in 1..(Len(rows) - 1) :
                        F64Le(rows[s[k]][2], rows[s[k + 1]][2]) } }

\* the data frames the call may return; empty when a distance call raises
compare_gmm_distance(q_gmm, dict) ==
    LET calls == DistanceCalls(q_gmm, dict)
    IN  IF \E k \in 1..Len(calls) : calls[k].raised # "none" THEN {}
        ELSE SortValues([k \in 1..Len(calls) |-> <<dict.keys[k], calls[k].value>>])

\* ------------------------------------------------------------------------
\* int32 and wide integers.  A wide integer [hi, lo] stands for
\* hi * 2^16 + lo with 0 <= lo < 2^16.
\* ------------------------------------------------------------------------
Limb == 2^16

MinInt32 == (-(2^30)) - 2^30

MaxInt32 == (2^30 - 1) + 2^30

Wide(hi, lo) == [hi |-> hi + (lo \div Limb), lo |-> lo % Limb]

WideOfInt(x) == Wide(0, x)

WideAdd(a, b) == Wide(a.hi + b.hi, a.lo + b.lo)

\* a times the small natural m
WideScale(a, m) == Wide(a.hi * m, a.lo * m)

\* the exact product of two 16-bit naturals
LimbProduct(xl, yl) ==
    LET t1 == (xl \div 256) * yl
        t0 == (xl % 256) * yl
    IN  Wide(t1 \div 256, (t1 % 256) * 256 + t0)

\* the int32 a wide integer wraps to: its value modulo 2^32, as a signed number
Wrap32(w) == ((((w.hi % Limb) + 2^15) % Limb) - 2^15) * Limb + w.lo

\* int32 subtraction
Sub32(x, y) == Wrap32(Wide((x \div Limb) - (y \div Limb), (x % Limb) - (y % Limb)))

\* int32 multiplication
Mul32(x, y) ==
    LET ll == LimbProduct(x % Limb, y % Limb)
        cross == (((x \div Limb) * (y % Limb)) % Limb) + (((x % Limb) * (y \div Limb)) % Limb)
    IN  Wrap32(Wide((ll.hi % Limb) + cross, ll.lo))

\* the float64 w / n of a wide integer whose quotient fits an integer
WideMean(w, n) ==
    LET rest == (w.hi % n) * Limb + w.lo
        f == Ratio(rest % n, n)
    IN  [q |-> (w.hi \div n) * Limb + (rest \div n), r |-> f.r, d |-> f.d]

\* ------------------------------------------------------------------------
\* mse(arr_i, arr_j): arrays are sequences of rows of int32
\* ------------------------------------------------------------------------
Flatten(arr) == [k \in 1..(Len(arr) * Len(arr[1])) |->
                    arr[((k - 1) \div Len(arr[1])) + 1][((k - 1) % Len(arr[1])) + 1]]

RECURSIVE WideSum(_)
WideSum(q) == IF q = <<>> THEN WideOfInt(0) ELSE WideAdd(WideOfInt(Head(q)), WideSum(Tail(q)))

\* np.square(arr_i - arr_j) of two flattened int32 arrays: an int32 array
SquaredDiffs(u, v) == [k \in 1..Len(u) |-> Mul32(Sub32(u[k], v[k]), Sub32(u[k], v[k]))]

mse(a_i, a_j) ==
    LET sq == SquaredDiffs(Flatten(a_i), Flatten(a_j))
    IN  WideMean(WideSum(sq), Len(sq))

\* ------------------------------------------------------------------------
\* get_exp_array(adata, gene_name, remove_low_exp_spots).  adata.obs is the
\* sequence of spot coordinates <<x, y>>, adata.X[gene] the expression values
\* of the gene at the spots, in units of 1/SCALE.  cast is what the build's
\* conversion of a float64 NaN to int32 gives.
\* ------------------------------------------------------------------------
MaxCoord(adata, axis) ==
    CHOOSE m \in { adata.obs[k][axis] : k \in DOMAIN adata.obs } :
        \A k \in DOMAIN adata.obs : adata.obs[k][axis] <= m

\* sparse.coo_matrix(...).todense(): values at the same coordinates add up
DenseCell(adata, gene, x, y) ==
    SeqSum([k \in DOMAIN adata.obs |->
               IF adata.obs[k] = <<x, y>> THEN adata.X[gene][k] ELSE 0])

DenseGrid(adata, gene) ==
    [x \in 1..(MaxCoord(adata, 1) + 1) |-> [y \in 1..(MaxCoord(adata, 2) + 1) |->
        DenseCell(adata, gene, x - 1, y - 1)]]

\* the cells the mean of line 203 is taken over
SelectedCells(cell) == cell # 0

\* the claim's selection: the strictly positive cells
SelectedCellsPositive(cell) == cell > 0

NanCasts == {MinInt32, 0}

get_exp_array(adata, gene, remove, cast) ==
    LET grid == DenseGrid(adata, gene)
        flat == Flatten(grid)
        sel == { k \in 1..Len(flat) : SelectedCells(flat[k]) }
        total == SeqSum([k \in 1..Len(flat) |-> IF k \in sel THEN flat[k] ELSE 0])
        count == Cardinality(sel)
    IN  [x \in 1..Len(grid) |-> [y \in 1..Len(grid[1]) |->
            IF ~remove THEN RoundHalfEven(grid[x][y], SCALE)
            ELSE IF count = 0 THEN cast
            ELSE IF grid[x][y] * count - total <= 0 THEN 0
            ELSE RoundHalfEven(grid[x][y] * count - total, count * SCALE)]]

\* ------------------------------------------------------------------------
\* The pairwise metrics of the five builders.  Each gives [raised, value]:
\* the exception that ends the evaluation ("none": it gives value).
\* ------------------------------------------------------------------------
RECURSIVE Dot(_, _)
Dot(u, v) == IF u = <<>> THEN 0 ELSE Head(u) * Head(v) + Dot(Tail(u), Tail(v))

\* scipy.spatial.distance.cosine of two integer vectors: 1 - u.v / sqrt(u.u * v.v),
\* the float64 division 0/0 giving NaN
cosine(u, v) ==
    IF Dot(u, u) * Dot(v, v) = 0 THEN NaN
    ELSE FromFx(SCALE - RoundDiv(Dot(u, v) * SCALE * SCALE,
                                 RoundSqrt(Dot(u, u) * Dot(v, v) * SCALE * SCALE)))

\* scipy.spatial.distance.cdist: the Euclidean distances between the rows
cdist(a, b) ==
    [r \in 1..Len(a) |-> [t \in 1..Len(b) |->
        RoundSqrt(SeqSum([c \in 1..Len(a[r]) |-> (a[r][c] - b[t][c]) * (a[r][c] - b[t][c])])
                  * SCALE * SCALE)]]

\* lines 169-173: the mean of the squared differences of the raw expression
RawMse(adata, ga, gb) ==
    LET n == Len(adata.obs)
        sq == [k \in 1..n |-> FMul(adata.X[ga][k] - adata.X[gb][k],
                                   adata.X[ga][k] - adata.X[gb][k])]
    IN  Ratio(SeqSum(sq), n * SCALE)

Metric(knd, adata, dict, ga, gb) ==
    CASE knd = "gmm" ->
            LET dd == distribution_distance(dict.val[ga], dict.val[gb])
            IN  [raised |-> dd.raised, value |-> dd.value]
      [] knd = "cosine" ->
            [raised |-> "none",
             value |-> cosine(Flatten(get_exp_array(adata, ga, FALSE, 0)),
                              Flatten(get_exp_array(adata, gb, FALSE, 0)))]
      [] knd = "mse" ->
            [raised |-> "none",
             value |-> mse(get_exp_array(adata, ga, FALSE, 0),
                           get_exp_array(adata, gb, FALSE, 0))]
      [] knd = "mix" ->
            LET dd == distribution_distance(dict.val[ga], dict.val[gb])
            IN  [raised |-> dd.raised, value |-> F64Add(RawMse(adata, ga, gb), dd.value)]
      [] knd = "ot" ->
            [raised |-> "none",
             value |-> FromFx(AssignFrom(cdist(get_exp_array(adata, ga, FALSE, 0),
                                               get_exp_array(adata, gb, FALSE, 0)), 1, {}))]

\* pd.DataFrame(0, index=gene_list, columns=gene_list, dtype=np.float64)
ZeroFrame(genes) == [r \in 1..Len(genes) |-> [c \in 1..Len(genes) |-> Zero]]

\* distance_array.loc[row_label, col_label] = value: every cell whose row is
\* labelled row_label and whose column is labelled col_label
LocAssign(frame, genes, row_label, col_label, value) ==
    [r \in 1..Len(genes) |-> [c \in 1..Len(genes) |->
        IF genes[r] = row_label /\ genes[c] = col_label THEN value ELSE frame[r][c]]]

\* ------------------------------------------------------------------------
\* State
\* ------------------------------------------------------------------------
VARIABLES
    pc,                    \* position of the running call
    first_gmm, second_gmm, \* distribution_distance: its arguments
    distance,              \* distribution_distance: how the call ended
    gmm, gmm_dict,         \* compare_gmm_distance / builders: query model, gene -> model
    sorted_df,             \* compare_gmm_distance: the returned rows <<gene, distance>>
    adata,                 \* the dataset: [obs |-> spot coordinates, X |-> gene -> values]
    gene_name, remove_low_exp_spots,  \* get_exp_array: arguments
    dense_array,           \* get_exp_array: the returned array
    arr_i, arr_j, mse_out, \* mse: arguments and result
    kind, gene_list,       \* builders: which builder runs, its gene list
    distance_array,        \* builders: the matrix, row position -> column position -> value
    i, j,                  \* builders: loop indices (0-based, as in the source)
    evaluated              \* builders: the index pairs whose metric has been evaluated

distVars == <<first_gmm, second_gmm, distance>>
cmpVars == <<gmm, sorted_df>>
expVars == <<gene_name, remove_low_exp_spots, dense_array>>
mseVars == <<arr_i, arr_j, mse_out>>
buildVars == <<kind, gene_list, distance_array, i, j, evaluated>>
vars == <<pc, distVars, cmpVars, gmm_dict, adata, expVars, mseVars, buildVars>>

\* the value of a variable the running operation does not use
Unused == <<>>

DistIdle == first_gmm = Unused /\ second_gmm = Unused /\ distance = Unused
CmpIdle == gmm = Unused /\ sorted_df = Unused
ExpIdle == gene_name = Unused /\ remove_low_exp_spots = Unused /\ dense_array = Unused
MseIdle == arr_i = Unused /\ arr_j = Unused /\ mse_out = Unused
BuildIdle == kind = Unused /\ gene_list = Unused /\ distance_array = Unused
             /\ i = Unused /\ j = Unused /\ evaluated = Unused

\* ------------------------------------------------------------------------
\* distribution_distance(first_gmm, second_gmm)
\* ------------------------------------------------------------------------
DistInit ==
    /\ pc = "distribution_distance"
    /\ first_gmm \in Models
    /\ second_gmm \in Models
    /\ distance = Unused
    /\ CmpIdle /\ ExpIdle /\ MseIdle /\ BuildIdle
    /\ gmm_dict = Unused /\ adata = Unused

DistCall ==
    /\ pc = "distribution_distance"
    /\ distance' = distribution_distance(first_gmm, second_gmm)
    /\ pc' = "done"
    /\ UNCHANGED <<first_gmm, second_gmm, cmpVars, gmm_dict, adata, expVars, mseVars,
                   buildVars>>

DistNext == DistCall

SpecDist == DistInit /\ [][DistNext]_vars

\* the one-to-one matchings of K components
Matchings(K) == { s \in [1..K -> 1..K] : \A a, b \in 1..K : s[a] = s[b] => a = b }

\* sum over i of (wA_i + wB_s(i)) * H(A_i, B_s(i))
MatchTotal(A, B, s) ==
    SeqSum([c \in 1..Len(A.weights_) |->
        FMul(A.weights_[c] + B.weights_[s[c]],
             get_hellinger_distance(A.covariances_[c], A.means_[c],
                                    B.covariances_[s[c]], B.means_[s[c]]))])

SameCount == Len(first_gmm.weights_) = Len(second_gmm.weights_)

\* C1: for two models with the same component count, distribution_distance
\* returns the least total, over the one-to-one matchings s of the components,
\* of (wA_i + wB_s(i)) * H(A_i, B_s(i)): no matching has a smaller total and
\* some matching has exactly the returned total.
C1_DistanceIsMinimumMatching ==
    (pc = "done" /\ SameCount) =>
        /\ distance.raised = "none"
        /\ \A s \in Matchings(Len(first_gmm.weights_)) :
               F64Le(distance.value, FromFx(MatchTotal(first_gmm, second_gmm, s)))
        /\ \E s \in Matchings(Len(first_gmm.weights_)) :
               distance.value = FromFx(MatchTotal(first_gmm, second_gmm, s))

\* a returned distance that the identity matching does not attain
C1_Witness ==
    /\ pc = "done" /\ SameCount /\ distance.raised = "none"
    /\ Len(first_gmm.weights_) >= 2
    /\ ~F64Le(FromFx(MatchTotal(first_gmm, second_gmm,
                                [c \in 1..Len(first_gmm.weights_) |-> c])),
              distance.value)

\* C4: distribution_distance(M, M) is 0 for every valid model M, the cost
\* matrix having a zero diagonal.
C4_SelfDistanceIsZero ==
    (pc = "done" /\ first_gmm = second_gmm) =>
        /\ distance.raised = "none"
        /\ distance.value = Zero
        /\ \A c \in 1..Len(first_gmm.weights_) : CostArray(first_gmm, second_gmm)[c][c] = 0

\* C5: called with models of different component counts, distribution_distance
\* fails before any cost-matrix cell is computed and returns no distance.
C5_MismatchFailsFast ==
    (pc = "done" /\ ~SameCount) => (distance.raised # "none" /\ distance.cells = 0)

\* ------------------------------------------------------------------------
\* compare_gmm_distance as a call
\* ------------------------------------------------------------------------
CmpInit ==
    /\ pc = "compare_gmm_distance"
    /\ gmm \in DictModels
    /\ gmm_dict \in Dicts(Genes, DictModels)
    /\ sorted_df = Unused
    /\ DistIdle /\ ExpIdle /\ MseIdle /\ BuildIdle
    /\ adata = Unused

CmpReturn ==
    /\ pc = "compare_gmm_distance"
    /\ \E df \in compare_gmm_distance(gmm, gmm_dict) : sorted_df' = df
    /\ pc' = "done"
    /\ UNCHANGED <<gmm, gmm_dict, distVars, adata, expVars, mseVars, buildVars>>

CmpRaise ==
    /\ pc = "compare_gmm_distance"
    /\ compare_gmm_distance(gmm, gmm_dict) = {}
    /\ pc' = "raised"
    /\ UNCHANGED <<gmm, gmm_dict, sorted_df, distVars, adata, expVars, mseVars, buildVars>>

CmpNext == CmpReturn \/ CmpRaise

SpecCompare == CmpInit /\ [][CmpNext]_vars

Layouts ==
    { << <<0, 0>>, <<0, 1>>, <<1, 1>> >>,
      << <<0, 0>>, <<0, 1>>, <<1, 1>>, <<1, 1>> >> }

\* expression values: -1, 0, 1.5 and 3
ExpValues == { -SCALE, 0, SCALE + (SCALE \div 2), 3 * SCALE }

ExpInit ==
    /\ pc = "get_exp_array"
    /\ \E obs \in Layouts : \E vals \in [DOMAIN obs -> ExpValues] :
           adata = [obs |-> obs, X |-> [g \in {"g1"} |-> vals]]
    /\ gene_name = "g1"
    /\ remove_low_exp_spots \in BOOLEAN
    /\ dense_array = Unused
    /\ DistIdle /\ CmpIdle /\ MseIdle /\ BuildIdle
    /\ gmm_dict = Unused

ExpCall ==
    /\ pc = "get_exp_array"
    /\ \E cast \in NanCasts :
           dense_array' = get_exp_array(adata, gene_name, remove_low_exp_spots, cast)
    /\ pc' = "done"
    /\ UNCHANGED <<adata, gene_name, remove_low_exp_spots, distVars, cmpVars, gmm_dict,
                   mseVars, buildVars>>

ExpNext == ExpCall

SpecExp == ExpInit /\ [][ExpNext]_vars

\* the cells of the dense grid of the call's gene
GridCells == { <<x, y>> \in (1..(MaxCoord(adata, 1) + 1)) \X (1..(MaxCoord(adata, 2) + 1)) : TRUE }

GridValue(c) == DenseGrid(adata, gene_name)[c[1]][c[2]]

HasSpot(c) == \E k \in DOMAIN adata.obs : adata.obs[k] = <<c[1] - 1, c[2] - 1>>

\* C8: get_exp_array with remove_low_exp_spots=True on a gene whose dense grid
\* is all zero fails with an error and returns no array.
C8_EmptySelectionFails ==
    (remove_low_exp_spots = TRUE /\ \A c \in GridCells : GridValue(c) = 0) => pc # "done"

\* C10: with remove_low_exp_spots=True the returned cell is round(max(c - m, 0)),
\* m the mean of the strictly positive cells of the dense grid; every returned
\* cell is >= 0 and the cells with no spot are 0.
C10_SubtractPositiveMean ==
    (pc = "done" /\ remove_low_exp_spots = TRUE) =>
        LET pos == { c \in GridCells : SelectedCellsPositive(GridValue(c)) }
            total == SeqSum([k \in 1..Cardinality(GridCells) |->
                        LET v == Flatten(DenseGrid(adata, gene_name))[k]
                        IN  IF SelectedCellsPositive(v) THEN v ELSE 0])
            count == Cardinality(pos)
        IN  \A c \in GridCells :
               /\ dense_array[c[1]][c[2]] >= 0
               /\ ~HasSpot(c) => dense_array[c[1]][c[2]] = 0
               /\ count > 0 =>
                     dense_array[c[1]][c[2]] =
                        IF GridValue(c) * count - total <= 0 THEN 0
                        ELSE RoundHalfEven(GridValue(c) * count - total, count * SCALE)

\* ------------------------------------------------------------------------
\* mse as a call
\* ------------------------------------------------------------------------
MseCells == 2

MseValues == { 0, -2, 3, 46340, 46341, Limb }

MseArrays == { <<row>> : row \in [1..MseCells -> MseValues] }

MseInit ==
    /\ pc = "mse"
    /\ arr_i \in MseArrays
    /\ arr_j \in MseArrays
    /\ mse_out = Unused
    /\ DistIdle /\ CmpIdle /\ ExpIdle /\ BuildIdle
    /\ gmm_dict = Unused /\ adata = Unused

MseCall ==
    /\ pc = "mse"
    /\ mse_out' = mse(arr_i, arr_j)
    /\ pc' = "done"
    /\ UNCHANGED <<arr_i, arr_j, distVars, cmpVars, gmm_dict, adata, expVars, buildVars>>

MseNext == MseCall

SpecMse == MseInit /\ [][MseNext]_vars

\* the exact square of v, for |v| <= 2^16
WideSquare(v) ==
    LET ll == LimbProduct(v % Limb, v % Limb)
    IN  Wide((v \div Limb) * (v \div Limb) * Limb + 2 * (v \div Limb) * (v % Limb) + ll.hi,
             ll.lo)

\* n times the float64 f, exactly
WideTimes(f, n) == WideAdd(WideScale(WideOfInt(f.q), n), WideOfInt(f.r * (n \div f.d)))

\* C7: mse(a, a) is exactly 0; for an all-zero array against an array holding
\* v in k of its n cells (0 elsewhere) mse is exactly (k*v*v)/n, for every
\* representable v; the result is never negative.
C7_MseExactAndNonNegative ==
    pc = "done" =>
        LET u == Flatten(arr_i)
            w == Flatten(arr_j)
            n == Len(u)
        IN  /\ arr_i = arr_j => mse_out = Zero
            /\ F64Le(Zero, mse_out)
            /\ \A v \in MseValues :
                  ((\A k \in 1..n : u[k] = 0) /\ (\A k \in 1..n : w[k] \in {0, v})) =>
                      WideTimes(mse_out, n) =
                          WideScale(WideSquare(v), Cardinality({ k \in 1..n : w[k] = v }))

\* ------------------------------------------------------------------------
\* The builders: build_gmm_distance_array ("gmm"), build_cosine_similarity_array
\* ("cosine"), build_mse_distance_array ("mse"), build_mix_distance_array
\* ("mix") and build_ot_distance_array ("ot"), one step per index pair
\* ------------------------------------------------------------------------
Kinds == {"gmm", "cosine", "mse", "mix", "ot"}

\* the builders whose gene list is the key list of gmm_dict
DictKinds == {"gmm", "mix"}

\* three spots; g1 is not expressed at any of them
BuildData ==
    [obs |-> << <<0, 0>>, <<0, 1>>, <<1, 1>> >>,
     X |-> [g \in Genes |->
              CASE g = "g1" -> <<0, 0, 0>>
                [] g = "g2" -> <<SCALE, 2 * SCALE, 0>>
                [] OTHER -> <<2 * SCALE, 0, 3 * SCALE>>]]

BuildInit ==
    /\ pc = "start"
    /\ kind \in Kinds
    /\ adata = BuildData
    /\ IF kind \in DictKinds
       THEN gmm_dict \in Dicts(Genes, DictModels) /\ gene_list = Unused
       ELSE gmm_dict = Unused /\ gene_list \in SeqsUpTo(Genes, MaxGenes)
    /\ distance_array = Unused /\ i = Unused /\ j = Unused /\ evaluated = Unused
    /\ DistIdle /\ CmpIdle /\ ExpIdle /\ MseIdle

\* gene_list = list(...); distance_array = pd.DataFrame(0, ...)
BuildStart ==
    /\ pc = "start"
    /\ gene_list' = IF kind \in DictKinds THEN gmm_dict.keys ELSE gene_list
    /\ distance_array' = ZeroFrame(gene_list')
    /\ i' = 0 /\ j' = 0 /\ evaluated' = {}
    /\ pc' = "loop"
    /\ UNCHANGED <<kind, gmm_dict, adata, distVars, cmpVars, expVars, mseVars>>

gene_counts == Len(gene_list)

NextIndex ==
    IF j + 1 < gene_counts THEN i' = i /\ j' = j + 1 ELSE i' = i + 1 /\ j' = 0

\* i == j: nothing is computed
BuildSkipDiagonal ==
    /\ pc = "loop" /\ i < gene_counts /\ i = j
    /\ NextIndex
    /\ UNCHANGED <<pc, kind, gene_list, distance_array, evaluated, gmm_dict, adata,
                   distVars, cmpVars, expVars, mseVars>>

\* i != j: the metric is evaluated and assigned
BuildPair ==
    /\ pc = "loop" /\ i < gene_counts /\ i # j
    /\ LET m == Metric(kind, adata, gmm_dict, gene_list[i + 1], gene_list[j + 1])
       IN  /\ m.raised = "none"
           /\ distance_array' = LocAssign(distance_array, gene_list, gene_list[i + 1],
                                          gene_list[j + 1], m.value)
    /\ evaluated' = evaluated \cup {<<i, j>>}
    /\ NextIndex
    /\ UNCHANGED <<pc, kind, gene_list, gmm_dict, adata, distVars, cmpVars, expVars, mseVars>>

\* i != j and the metric raises: the build ends with the exception
BuildRaise ==
    /\ pc = "loop" /\ i < gene_counts /\ i # j
    /\ Metric(kind, adata, gmm_dict, gene_list[i + 1], gene_list[j + 1]).raised # "none"
    /\ evaluated' = evaluated \cup {<<i, j>>}
    /\ pc' = "raised"
    /\ UNCHANGED <<kind, gene_list, distance_array, i, j, gmm_dict, adata,
                   distVars, cmpVars, expVars, mseVars>>

BuildReturn ==
    /\ pc = "loop" /\ i = gene_counts
    /\ pc' = "done"
    /\ UNCHANGED <<kind, gene_list, distance_array, i, j, evaluated, gmm_dict, adata,
                   distVars, cmpVars, expVars, mseVars>>

BuildNext == BuildStart \/ BuildSkipDiagonal \/ BuildPair \/ BuildRaise \/ BuildReturn

SpecBuild == BuildInit /\ [][BuildNext]_vars

Building == pc \in {"loop", "raised", "done"}

\* C2: in every state of every build the diagonal cells of the distance matrix
\* are 0 and the metric has not been evaluated for a pair with i = j.
C2_DiagonalStaysZero ==
    Building =>
        /\ \A r \in 1..gene_counts : distance_array[r][r] = Zero
        /\ \A p \in evaluated : p[1] # p[2]

C9_PairWritesOneCell ==
    /\ [][(pc = "loop" /\ evaluated' # evaluated) =>
             /\ \A r, c \in 1..gene_counts :
                   <<r, c>> # <<i + 1, j + 1>> => distance_array'[r][c] = distance_array[r][c]
             /\ UNCHANGED <<gene_list, gmm_dict, adata>>]_vars
    /\ [](pc = "done" =>
             \A r, c \in 1..gene_counts : r # c =>
                 distance_array[r][c] =
                     Metric(kind, adata, gmm_dict, gene_list[r], gene_list[c]).value)

====
